---------------------------- MODULE Spec2Model ----------------------------
(***************************************************************************)
(* tinyterm: a minimal serial terminal (src/tinyterm/tinyterm.py).         *)
(*                                                                         *)
(* The model follows one process from main() to its exit: argument         *)
(* validation, SerialConsole.__init__ (port open, cleanup and SIGINT       *)
(* handler registration, reopen_stdin), the relay loop of                  *)
(* SerialConsole.__call__ with its escape state machine, and the exit      *)
(* path through sys.excepthook and atexit.                                 *)
(*                                                                         *)
(* Bytes are integers 0..255; a bytes() object is a sequence of them.      *)
(* The port's output, the display and the keyboard input are history       *)
(* variables recording what crossed each interface.                        *)
(***************************************************************************)
EXTENDS Integers, Sequences, FiniteSets, TLC

(***************************************************************************)
(* Bounds of the model.                                                    *)
(***************************************************************************)
\* total number of keyboard bytes the user types in one run
MaxKeys == 3
\* number of bytes the remote device sends in one run
MaxPortBytes == 1
\* number of SIGINT deliveries in one run
MaxSignals == 1

(***************************************************************************)
(* Byte values the program names.                                          *)
(***************************************************************************)
CTRL_A == 1
ETX == 3
Lq == 113
UQ == 81
Lk == 107
UK == 75
Backslash == 92
Lr == 114
UR == 82
QuestionMark == 63

QuitSet == {Lq, UQ, Lk, UK, Backslash}
ResetSet == {Lr, UR}
HelpSet == {QuestionMark}

(***************************************************************************)
(* Inputs of the environment.                                              *)
(***************************************************************************)
\* bytes the keyboard can deliver: the prefix, one byte of every command
\* class ('q', 'r', '?') and an ordinary letter 'a' (97)
KeyBytes == {CTRL_A, Lq, Lr, QuestionMark, 97}
\* bytes the remote device can send: 0x01 and 'R'
PortBytes == {CTRL_A, UR}
\* a keyboard that has only the prefix, 'q' and 'a'
QuitKeyBytes == {CTRL_A, Lq, 97}
\* values of the TERM environment variable: <<>> stands for "unset",
\* otherwise the value's characters ("xterm")
NoTerm == <<>>
TermValues == {NoTerm, <<120, 116, 101, 114, 109>>}

(***************************************************************************)
(* Sequence helpers.                                                       *)
(***************************************************************************)
RECURSIVE Join(_)
\* b''.join(list of bytes objects)
Join(chunks) ==
    IF chunks = <<>> THEN <<>> ELSE Head(chunks) \o Join(Tail(chunks))

RECURSIVE Reverse(_)
Reverse(s) ==
    IF s = <<>> THEN <<>> ELSE Append(Reverse(Tail(s)), Head(s))

NonEmptySeqsUpTo(S, n) == UNION {[1..k -> S] : k \in 1..n}


(***************************************************************************)
(* State.                                                                  *)
(***************************************************************************)
VARIABLES
    pc,          \* position of the process (see PcValues)
    envTERM,     \* os.environ's TERM: NoTerm when unset
    trap_next,   \* __call__'s local trap_next (escape-pending)
    stop,        \* self.stop
    outbuf,      \* __call__'s local outbuf: a list of bytes objects
    data,        \* the chars of the keyboard batch the for loop has yet to visit
    ready,       \* ready[0] of the last select, while the iteration uses it
    xready,      \* ready[2] of the last select: sources in an exceptional condition
    keyIn,       \* history: every byte sys.stdin.read() has returned
    portOut,     \* history: every byte written to the serial port
    relayOut,    \* history: the bytes the relay loop wrote to the port
    portIn,      \* history: every byte self.port.read() has returned
    display,     \* history: every byte written to sys.stdout.buffer
    printed,     \* history: the texts print() has shown
    sigCount,    \* history: SIGINT deliveries so far
    portOpen,    \* the serial port is open
    ttyMode,     \* terminal mode of stdin: "saved" (as found) or "cbreak"
    sigHandler,  \* disposition of SIGINT: "default", "ignore" or "forward"
    atexit_fns,  \* cleanups registered with atexit, in registration order
    hook_chain,  \* cleanups the sys.excepthook chain calls, newest first
    called,      \* cleanup.called of each registered cleanup
    opLog,       \* history: invocations of the underlying cleanup functions
    todo,        \* cleanups the current exit phase has yet to invoke
    raisedAt,    \* the call that raised the unhandled error, or "none"
    diag,        \* what was reported on stderr
    exitStatus   \* exit status of the process, -1 while it runs

vars == <<pc, envTERM, trap_next, stop, outbuf, data, ready, xready, keyIn, portOut,
          relayOut, portIn, display, printed, sigCount, portOpen, ttyMode, sigHandler,
          atexit_fns, hook_chain, called, opLog, todo, raisedAt, diag,
          exitStatus>>

relayVars == <<trap_next, stop, outbuf, data, ready, xready, keyIn, portOut, relayOut,
               portIn, display, printed>>
lifeVars == <<portOpen, ttyMode, sigHandler, atexit_fns, hook_chain, called,
              opLog, todo>>

PcValues == {"main", "construct", "reopen_stdin", "call", "select", "port",
             "stdin", "chars", "goodbye", "excepthook", "atexit", "exited"}

\* the two sources select waits on: targets = [sys.stdin, self.port]
targets == {"stdin", "port"}

\* positions inside the while loop of __call__
LoopPcs == {"select", "port", "stdin", "chars"}

CleanupIds == {"close", "restore"}

Init ==
    /\ pc = "main"
    /\ envTERM \in TermValues
    /\ trap_next = FALSE
    /\ stop = FALSE
    /\ outbuf = <<>>
    /\ data = <<>>
    /\ ready = {}
    /\ xready = {}
    /\ keyIn = <<>>
    /\ portOut = <<>>
    /\ relayOut = <<>>
    /\ portIn = <<>>
    /\ display = <<>>
    /\ printed = <<>>
    /\ sigCount = 0
    /\ portOpen = FALSE
    /\ ttyMode = "saved"
    /\ sigHandler = "default"
    /\ atexit_fns = <<>>
    /\ hook_chain = <<>>
    /\ called = [id \in CleanupIds |-> FALSE]
    /\ opLog = <<>>
    /\ todo = <<>>
    /\ raisedAt = "none"
    /\ diag = "none"
    /\ exitStatus = -1

(***************************************************************************)
(* Exit machinery: register_cleanup, sys.excepthook, atexit.               *)
(***************************************************************************)
\* register_cleanup(function): cleanup.called = False, atexit.register(cleanup),
\* and a new sys.excepthook that calls cleanup() and then the old hook
RegisterCleanup(id) ==
    /\ atexit_fns' = Append(atexit_fns, id)
    /\ hook_chain' = <<id>> \o hook_chain
    /\ called' = [called EXCEPT ![id] = FALSE]

\* atexit running its callbacks in the order of registration
BeginAtexitFifo(status) ==
    /\ exitStatus' = status
    /\ IF atexit_fns = <<>>
       THEN pc' = "exited" /\ todo' = <<>>
       ELSE pc' = "atexit" /\ todo' = atexit_fns

\* Interpreter shutdown: atexit runs the registered callbacks, last
\* registered first, and the process exits with the given status.
BeginAtexit(status) ==
    /\ exitStatus' = status
    /\ IF atexit_fns = <<>>
       THEN pc' = "exited" /\ todo' = <<>>
       ELSE pc' = "atexit" /\ todo' = Reverse(atexit_fns)

\* An error no code catches: the interpreter calls sys.excepthook (the chain
\* of new_hooks, ending in the default hook that prints the traceback), then
\* shuts down with status 1.
Raise(site) ==
    /\ raisedAt' = site
    /\ IF hook_chain = <<>>
       THEN diag' = "traceback" /\ BeginAtexit(1)
       ELSE /\ pc' = "excepthook"
            /\ todo' = hook_chain
            /\ UNCHANGED <<diag, exitStatus>>

\* cleanup() of register_cleanup, for the cleanup `id`, when the underlying
\* function returns normally (ok) or raises: the function is called when
\* cleanup.called is false, and cleanup.called is set after it returned.
\* [invoked: the function was called; raised: cleanup() raised]
cleanup(id, wasCalled, ok) ==
    IF wasCalled
    THEN [invoked |-> FALSE, raised |-> FALSE, called |-> TRUE]
    ELSE [invoked |-> TRUE, raised |-> ~ok, called |-> ok]

\* What the underlying function does when it returns normally:
\* self.port.close, or termios.tcsetattr(sys.stdin, TCSANOW, stty).
FunctionEffect(id, r) ==
    /\ portOpen' = IF id = "close" /\ r.invoked /\ ~r.raised
                   THEN FALSE ELSE portOpen
    /\ ttyMode' = IF id = "restore" /\ r.invoked /\ ~r.raised
                  THEN "saved" ELSE ttyMode

\* One new_hook of the sys.excepthook chain: cleanup(), then old_hook. An
\* exception out of cleanup() leaves the chain; after the last new_hook the
\* default hook prints the traceback. Then the interpreter shuts down.
ExcepthookStep ==
    /\ pc = "excepthook"
    /\ todo # <<>>
    /\ LET id == Head(todo) IN
       \E ok \in (IF called[id] THEN {TRUE} ELSE BOOLEAN) :
         LET r == cleanup(id, called[id], ok) IN
           /\ called' = [called EXCEPT ![id] = r.called]
           /\ opLog' = IF r.invoked THEN Append(opLog, id) ELSE opLog
           /\ FunctionEffect(id, r)
           /\ IF r.raised \/ Tail(todo) = <<>>
              THEN diag' = "traceback" /\ BeginAtexit(1)
              ELSE /\ todo' = Tail(todo)
                   /\ UNCHANGED <<pc, diag, exitStatus>>
    /\ UNCHANGED <<envTERM, sigCount, sigHandler, atexit_fns, hook_chain,
                   raisedAt>>
    /\ UNCHANGED relayVars

\* One atexit callback: cleanup(). atexit reports an exception of a callback
\* and goes on with the next one.
AtexitStep ==
    /\ pc = "atexit"
    /\ todo # <<>>
    /\ LET id == Head(todo) IN
       \E ok \in (IF called[id] THEN {TRUE} ELSE BOOLEAN) :
         LET r == cleanup(id, called[id], ok) IN
           /\ called' = [called EXCEPT ![id] = r.called]
           /\ opLog' = IF r.invoked THEN Append(opLog, id) ELSE opLog
           /\ FunctionEffect(id, r)
    /\ todo' = Tail(todo)
    /\ pc' = IF Tail(todo) = <<>> THEN "exited" ELSE "atexit"
    /\ UNCHANGED <<envTERM, sigCount, sigHandler, atexit_fns, hook_chain,
                   raisedAt, diag, exitStatus>>
    /\ UNCHANGED relayVars

(***************************************************************************)
(* main() and SerialConsole.__init__.                                      *)
(***************************************************************************)
\* command-line values of --parity, --baud, and whether --device exists
ParityArgs == {<<78>>, <<101, 118, 101, 110>>, <<32, 111>>, <<120>>, <<>>}
BaudArgs == {<<57, 54, 48, 48>>, <<49, 101, 53>>}

IsSpace(c) == c \in {32, 9, 10, 11, 12, 13}
IsDigit(c) == c \in 48..57

RECURSIVE LStrip(_)
LStrip(s) ==
    IF s # <<>> /\ IsSpace(Head(s)) THEN LStrip(Tail(s)) ELSE s

\* str.strip()
Strip(s) == Reverse(LStrip(Reverse(LStrip(s))))

\* str.upper(), on ASCII
Upper(s) == [i \in 1..Len(s) |-> IF s[i] \in 97..122 THEN s[i] - 32 ELSE s[i]]

\* int(text) succeeds: optional blanks, optional sign, decimal digits
IntParses(text) ==
    LET t == Strip(text)
        d == IF t # <<>> /\ Head(t) \in {43, 45} THEN Tail(t) ELSE t
    IN  d # <<>> /\ \A i \in 1..Len(d) : IsDigit(d[i])

\* main() without the os.path.exists test
MainOutcomeNoDeviceCheck(parity, baud, deviceExists) ==
    LET p == Upper(Strip(parity)) IN
    IF p = <<>> THEN "indexerror"
    ELSE IF p[1] \notin {69, 79, 78} THEN "parity"
    ELSE IF ~IntParses(baud) THEN "baud"
    ELSE "ok"

\* main(), up to the construction of the console: the outcome for the given
\* arguments. "indexerror" is args.parity.strip().upper()[0] on a blank value.
MainOutcome(parity, baud, deviceExists) ==
    LET p == Upper(Strip(parity)) IN
    IF p = <<>> THEN "indexerror"
    ELSE IF p[1] \notin {69, 79, 78} THEN "parity"
    ELSE IF ~IntParses(baud) THEN "baud"
    ELSE IF ~deviceExists THEN "device"
    ELSE "ok"

Main ==
    /\ pc = "main"
    /\ \E parity \in ParityArgs, baud \in BaudArgs, deviceExists \in BOOLEAN :
         LET o == MainOutcome(parity, baud, deviceExists) IN
           CASE o = "ok" ->
                  /\ pc' = "construct"
                  /\ UNCHANGED <<todo, raisedAt, diag, exitStatus>>
             [] o = "indexerror" ->
                  Raise("parity[0]")
             [] OTHER ->
                  \* sys.stderr.write(...); sys.exit(1)
                  /\ diag' = o
                  /\ BeginAtexit(1)
                  /\ UNCHANGED raisedAt
    /\ UNCHANGED <<envTERM, sigCount, portOpen, ttyMode, sigHandler,
                   atexit_fns, hook_chain, called, opLog>>
    /\ UNCHANGED relayVars

\* SerialConsole.__init__ up to the call of reopen_stdin
Construct ==
    /\ pc = "construct"
    /\ portOpen' = TRUE
    /\ RegisterCleanup("close")
    /\ sigHandler' = "forward"
    /\ stop' = FALSE
    /\ pc' = "reopen_stdin"
    /\ UNCHANGED <<envTERM, trap_next, outbuf, data, ready, xready, keyIn, portOut,
                   relayOut, portIn, display, printed, sigCount, ttyMode, opLog, todo,
                   raisedAt, diag, exitStatus>>

\* serial.Serial(...) raises: the port cannot be opened or configured
ConstructFail ==
    /\ pc = "construct"
    /\ Raise("serial.Serial")
    /\ UNCHANGED <<envTERM, sigCount, portOpen, ttyMode, sigHandler,
                   atexit_fns, hook_chain, called, opLog>>
    /\ UNCHANGED relayVars

\* reopen_stdin(): save the terminal settings, register their restoration,
\* switch stdin to non-blocking cbreak mode
ReopenStdin ==
    /\ pc = "reopen_stdin"
    /\ RegisterCleanup("restore")
    /\ ttyMode' = "cbreak"
    /\ pc' = "call"
    /\ UNCHANGED <<envTERM, sigCount, portOpen, sigHandler, opLog, todo,
                   raisedAt, diag, exitStatus>>
    /\ UNCHANGED relayVars

\* termios.tcgetattr(sys.stdin) raises: stdin is not a terminal
ReopenStdinFail ==
    /\ pc = "reopen_stdin"
    /\ Raise("tcgetattr")
    /\ UNCHANGED <<envTERM, sigCount, portOpen, ttyMode, sigHandler,
                   atexit_fns, hook_chain, called, opLog>>
    /\ UNCHANGED relayVars

(***************************************************************************)
(* The escape state machine: SerialConsole.interpret and the body of the   *)
(* for loop of SerialConsole.__call__.                                     *)
(***************************************************************************)
\* GetenvTERM with the environment ignored: always the default
GetenvTERMIgnoresEnv(term) == <<118, 116, 49, 48, 48>>

\* os.getenv('TERM', 'vt100')
GetenvTERM(term) == IF term = NoTerm THEN <<118, 116, 49, 48, 48>> ELSE term

\* bytes("\x01\x0B\ntrue\n", 'utf-8')
ResetPrefix == <<1, 11, 10, 116, 114, 117, 101, 10>>

RECURSIVE JoinSep(_, _)
\* sep.join(list of strings)
JoinSep(sep, strs) ==
    IF strs = <<>> THEN <<>>
    ELSE IF Len(strs) = 1 THEN Head(strs)
    ELSE Head(strs) \o sep \o JoinSep(sep, Tail(strs))

\* the list `commands` of interpret: "export TERM=%s" % TERM, "resize", "reset"
ResetCommands(term) ==
    << <<101, 120, 112, 111, 114, 116, 32, 84, 69, 82, 77, 61>> \o GetenvTERM(term),
       <<114, 101, 115, 105, 122, 101>>,
       <<114, 101, 115, 101, 116>> >>

\* prefix + bytes(' && '.join(commands) + '\n', 'utf-8'); the characters are
\* ASCII, which utf-8 encodes as themselves
ResetSequence(term) ==
    ResetPrefix \o JoinSep(<<32, 38, 38, 32>>, ResetCommands(term)) \o <<10>>

\* interpret with a quit command that returns the command byte
interpretQuitEchoes(char, term) ==
    IF char \in QuitSet
    THEN [result |-> <<char>>, stop |-> TRUE, help |-> FALSE]
    ELSE IF char \in ResetSet
    THEN [result |-> ResetSequence(term), stop |-> FALSE, help |-> FALSE]
    ELSE IF char \in HelpSet
    THEN [result |-> <<>>, stop |-> FALSE, help |-> TRUE]
    ELSE [result |-> <<char>>, stop |-> FALSE, help |-> FALSE]

\* interpret with a help command that falls through to "return char"
interpretHelpEchoes(char, term) ==
    IF char \in QuitSet
    THEN [result |-> <<>>, stop |-> TRUE, help |-> FALSE]
    ELSE IF char \in ResetSet
    THEN [result |-> ResetSequence(term), stop |-> FALSE, help |-> FALSE]
    ELSE IF char \in HelpSet
    THEN [result |-> <<char>>, stop |-> FALSE, help |-> TRUE]
    ELSE [result |-> <<char>>, stop |-> FALSE, help |-> FALSE]

\* interpret with a final "return b''" in place of "return char"
interpretDropsUnknown(char, term) ==
    IF char \in QuitSet
    THEN [result |-> <<>>, stop |-> TRUE, help |-> FALSE]
    ELSE IF char \in ResetSet
    THEN [result |-> ResetSequence(term), stop |-> FALSE, help |-> FALSE]
    ELSE IF char \in HelpSet
    THEN [result |-> <<>>, stop |-> FALSE, help |-> TRUE]
    ELSE [result |-> <<>>, stop |-> FALSE, help |-> FALSE]

\* interpret(char): the bytes it returns, whether it sets self.stop, and
\* whether it prints the help menu
interpret(char, term) ==
    IF char \in QuitSet
    THEN [result |-> <<>>, stop |-> TRUE, help |-> FALSE]
    ELSE IF char \in ResetSet
    THEN [result |-> ResetSequence(term), stop |-> FALSE, help |-> FALSE]
    ELSE IF char \in HelpSet
    THEN [result |-> <<>>, stop |-> FALSE, help |-> TRUE]
    ELSE [result |-> <<char>>, stop |-> FALSE, help |-> FALSE]

\* the loop body with the quit bytes recognised before trap_next is tested
ClassifyCharQuitUntrapped(char, trap, term) ==
    IF trap \/ char \in QuitSet
    THEN LET i == interpret(char, term) IN
         [append |-> <<i.result>>, trap_next |-> FALSE, stop |-> i.stop,
          help |-> i.help]
    ELSE IF char = CTRL_A
    THEN [append |-> <<>>, trap_next |-> TRUE, stop |-> FALSE, help |-> FALSE]
    ELSE [append |-> <<<<char>>>>, trap_next |-> FALSE, stop |-> FALSE,
          help |-> FALSE]

\* the loop body with the prefix tested first: a trapped prefix traps again
ClassifyCharDoubleTrap(char, trap, term) ==
    IF char = CTRL_A
    THEN [append |-> IF trap THEN <<<<char>>>> ELSE <<>>, trap_next |-> TRUE,
          stop |-> FALSE, help |-> FALSE]
    ELSE IF trap
    THEN LET i == interpret(char, term) IN
         [append |-> <<i.result>>, trap_next |-> FALSE, stop |-> i.stop,
          help |-> i.help]
    ELSE [append |-> <<<<char>>>>, trap_next |-> FALSE, stop |-> FALSE,
          help |-> FALSE]

\* One turn of "for char in data": the elements appended to outbuf, the new
\* trap_next, whether self.stop is set, whether the help menu is printed.
ClassifyChar(char, trap, term) ==
    IF trap
    THEN LET i == interpret(char, term) IN
         [append |-> <<i.result>>, trap_next |-> FALSE, stop |-> i.stop,
          help |-> i.help]
    ELSE IF char = CTRL_A
    THEN [append |-> <<>>, trap_next |-> TRUE, stop |-> FALSE, help |-> FALSE]
    ELSE [append |-> <<<<char>>>>, trap_next |-> FALSE, stop |-> FALSE,
          help |-> FALSE]

\* the port write and outbuf.clear() placed before "if self.stop: break"
AfterBatchFlushFirst(st, ob) ==
    [break |-> st, write |-> TRUE, payload |-> Join(ob), outbuf |-> <<>>]

\* "if self.stop" that goes on with the next iteration and does not break
AfterBatchNoBreak(st, ob) ==
    IF st
    THEN [break |-> FALSE, write |-> FALSE, payload |-> <<>>, outbuf |-> ob]
    ELSE [break |-> FALSE, write |-> TRUE, payload |-> Join(ob),
          outbuf |-> <<>>]

\* the port write without outbuf.clear()
AfterBatchNoClear(st, ob) ==
    IF st
    THEN [break |-> TRUE, write |-> FALSE, payload |-> <<>>, outbuf |-> ob]
    ELSE [break |-> FALSE, write |-> TRUE, payload |-> Join(ob),
          outbuf |-> ob]

\* After the for loop: "if self.stop: break", else the port write of
\* b''.join(outbuf) and outbuf.clear().
AfterBatch(st, ob) ==
    IF st
    THEN [break |-> TRUE, write |-> FALSE, payload |-> <<>>, outbuf |-> ob]
    ELSE [break |-> FALSE, write |-> TRUE, payload |-> Join(ob),
          outbuf |-> <<>>]

\* a display write that swallows the escape prefix
DisplayWriteTrapsCtrlA(bytes) == SelectSeq(bytes, LAMBDA b : b # CTRL_A)

\* sys.stdout.buffer.write(data): the bytes that reach the display
DisplayWrite(bytes) == bytes

\* a handler that forwards nothing
SigintPayloadEmpty == <<>>

\* what the SIGINT handler writes: self.port.write(b'\x03')
SigintPayload == <<ETX>>

(***************************************************************************)
(* SerialConsole.__call__                                                  *)
(***************************************************************************)
\* Entry of __call__: locals, self.stop = False, the banner
Call ==
    /\ pc = "call"
    /\ trap_next' = FALSE
    /\ stop' = FALSE
    /\ outbuf' = <<>>
    /\ printed' = Append(printed, "banner")
    /\ pc' = "select"
    /\ UNCHANGED <<envTERM, data, ready, xready, keyIn, portOut, relayOut, portIn,
                   display, sigCount, raisedAt, diag, exitStatus>>
    /\ UNCHANGED lifeVars

\* the keyboard branch placed before the port branch
SelectStdinFirst ==
    /\ pc = "select"
    /\ \E r \in SUBSET targets, x \in SUBSET targets :
         /\ r \cup x # {}
         /\ r = {} \/ x = {}
         /\ "stdin" \in r => Len(keyIn) < MaxKeys
         /\ "port" \in r => Len(portIn) < MaxPortBytes
         /\ ready' = r
         /\ xready' = x
         /\ pc' = IF "stdin" \in r THEN "stdin"
                  ELSE IF "port" \in r THEN "port" ELSE "select"
    /\ UNCHANGED <<envTERM, trap_next, stop, outbuf, data, keyIn, portOut,
                   relayOut, portIn, display, printed, sigCount, raisedAt, diag,
                   exitStatus>>
    /\ UNCHANGED lifeVars

\* select.select(targets, [], targets) returns: r is ready[0], x is ready[2].
\* The call has no timeout, so it reports something. A source is readable
\* when it has bytes to deliver; an exceptional condition is modelled when it
\* is all that select reports. The loop reads ready[0] only.
Select ==
    /\ pc = "select"
    /\ \E r \in SUBSET targets, x \in SUBSET targets :
         /\ r \cup x # {}
         /\ r = {} \/ x = {}
         /\ "stdin" \in r => Len(keyIn) < MaxKeys
         /\ "port" \in r => Len(portIn) < MaxPortBytes
         /\ ready' = r
         /\ xready' = x
         /\ pc' = IF "port" \in r THEN "port"
                  ELSE IF "stdin" \in r THEN "stdin" ELSE "select"
    /\ UNCHANGED <<envTERM, trap_next, stop, outbuf, data, keyIn, portOut,
                   relayOut, portIn, display, printed, sigCount, raisedAt, diag,
                   exitStatus>>
    /\ UNCHANGED lifeVars

\* "if self.port in ready[0]": self.port.read() returns one byte (pyserial's
\* read(size=1)), written to sys.stdout.buffer and flushed
PortService ==
    /\ pc = "port"
    /\ \E b \in PortBytes :
         /\ portIn' = Append(portIn, b)
         /\ display' = display \o DisplayWrite(<<b>>)
    /\ ready' = ready \ {"port"}
    /\ UNCHANGED xready
    /\ pc' = IF "stdin" \in ready THEN "stdin" ELSE "select"
    /\ UNCHANGED <<envTERM, trap_next, stop, outbuf, data, keyIn, portOut,
                   relayOut, printed, sigCount, raisedAt, diag, exitStatus>>
    /\ UNCHANGED lifeVars

\* "if sys.stdin in ready[0]": sys.stdin.read() returns a batch of bytes of
\* the alphabet S, split into chars
StdinReadFrom(S) ==
    /\ pc = "stdin"
    /\ \E batch \in NonEmptySeqsUpTo(S, MaxKeys - Len(keyIn)) :
         /\ data' = batch
         /\ keyIn' = keyIn \o batch
    /\ ready' = {}
    /\ UNCHANGED xready
    /\ pc' = "chars"
    /\ UNCHANGED <<envTERM, trap_next, stop, outbuf, portOut, relayOut, portIn,
                   display, printed, sigCount, raisedAt, diag, exitStatus>>
    /\ UNCHANGED lifeVars

\* the read with trap_next re-initialised for every batch
StdinReadResetsTrap ==
    /\ pc = "stdin"
    /\ \E batch \in NonEmptySeqsUpTo(KeyBytes, MaxKeys - Len(keyIn)) :
         /\ data' = batch
         /\ keyIn' = keyIn \o batch
    /\ ready' = {}
    /\ UNCHANGED xready
    /\ trap_next' = FALSE
    /\ pc' = "chars"
    /\ UNCHANGED <<envTERM, stop, outbuf, portOut, relayOut, portIn,
                   display, printed, sigCount, raisedAt, diag, exitStatus>>
    /\ UNCHANGED lifeVars

StdinRead == StdinReadFrom(KeyBytes)

\* the same read when the user types only the prefix, 'q' and 'a'
StdinReadQuitKeys == StdinReadFrom(QuitKeyBytes)

\* a turn of the for loop that puts its bytes at the front of outbuf
ClassifyPrepends ==
    /\ pc = "chars"
    /\ data # <<>>
    /\ LET c == ClassifyChar(Head(data), trap_next, envTERM) IN
         /\ outbuf' = c.append \o outbuf
         /\ trap_next' = c.trap_next
         /\ stop' = (stop \/ c.stop)
         /\ printed' = IF c.help THEN Append(printed, "help") ELSE printed
    /\ data' = Tail(data)
    /\ UNCHANGED <<pc, envTERM, ready, xready, keyIn, portOut, relayOut, portIn,
                   display, sigCount, raisedAt, diag, exitStatus>>
    /\ UNCHANGED lifeVars

\* one turn of "for char in data"
Classify ==
    /\ pc = "chars"
    /\ data # <<>>
    /\ LET c == ClassifyChar(Head(data), trap_next, envTERM) IN
         /\ outbuf' = outbuf \o c.append
         /\ trap_next' = c.trap_next
         /\ stop' = (stop \/ c.stop)
         /\ printed' = IF c.help THEN Append(printed, "help") ELSE printed
    /\ data' = Tail(data)
    /\ UNCHANGED <<pc, envTERM, ready, xready, keyIn, portOut, relayOut, portIn,
                   display, sigCount, raisedAt, diag, exitStatus>>
    /\ UNCHANGED lifeVars

\* the for loop is over: break, or write outbuf to the port and clear it
EndBatch ==
    /\ pc = "chars"
    /\ data = <<>>
    /\ LET a == AfterBatch(stop, outbuf) IN
         /\ portOut' = IF a.write THEN portOut \o a.payload ELSE portOut
         /\ relayOut' = IF a.write THEN relayOut \o a.payload ELSE relayOut
         /\ outbuf' = a.outbuf
         /\ pc' = IF a.break THEN "goodbye" ELSE "select"
    /\ UNCHANGED <<envTERM, trap_next, stop, data, ready, xready, keyIn, portIn,
                   display, printed, sigCount, raisedAt, diag, exitStatus>>
    /\ UNCHANGED lifeVars

\* print("\n--- Goodbye. ---"); __call__ and main return; the interpreter
\* shuts down with status 0
Goodbye ==
    /\ pc = "goodbye"
    /\ printed' = Append(printed, "goodbye")
    /\ BeginAtexit(0)
    /\ UNCHANGED <<envTERM, trap_next, stop, outbuf, data, ready, xready, keyIn,
                   portOut, relayOut, portIn, display, sigCount, portOpen, ttyMode,
                   sigHandler, atexit_fns, hook_chain, called, opLog,
                   raisedAt, diag>>

(***************************************************************************)
(* Adapter errors: a call of the relay loop raises. Nothing catches it.    *)
(***************************************************************************)
\* the call about to be made at each position of the loop
PendingCall ==
    CASE pc = "select" -> "select"
      [] pc = "port" -> "port.read"
      [] pc = "stdin" -> "stdin.read"
      [] pc = "chars" /\ data = <<>> /\ AfterBatch(stop, outbuf).write -> "port.write"
      [] OTHER -> "none"

IOError ==
    /\ PendingCall # "none"
    /\ Raise(PendingCall)
    /\ UNCHANGED <<envTERM, sigCount, portOpen, ttyMode, sigHandler,
                   atexit_fns, hook_chain, called, opLog>>
    /\ UNCHANGED relayVars

\* a handler that also sets self.stop
SigIntSetsStop ==
    /\ pc \in LoopPcs
    /\ sigHandler = "forward"
    /\ sigCount < MaxSignals
    /\ sigCount' = sigCount + 1
    /\ portOut' = portOut \o SigintPayload
    /\ stop' = TRUE
    /\ UNCHANGED <<pc, envTERM, trap_next, outbuf, data, ready, xready, keyIn,
                   relayOut, portIn, display, printed, raisedAt, diag, exitStatus>>
    /\ UNCHANGED lifeVars

(***************************************************************************)
(* SIGINT while the relay loop runs: the handler of register_handler.      *)
(* old_handler is SIG_IGN, which is not callable, so nothing else runs.    *)
(***************************************************************************)
SigInt ==
    /\ pc \in LoopPcs
    /\ sigHandler = "forward"
    /\ sigCount < MaxSignals
    /\ sigCount' = sigCount + 1
    /\ portOut' = portOut \o SigintPayload
    /\ UNCHANGED <<pc, envTERM, trap_next, stop, outbuf, data, ready, xready, keyIn,
                   relayOut, portIn, display, printed, raisedAt, diag, exitStatus>>
    /\ UNCHANGED lifeVars

\* self.port.write(b'\x03') raises inside the handler: the error surfaces in
\* the interrupted code
SigIntFail ==
    /\ pc \in LoopPcs
    /\ sigHandler = "forward"
    /\ sigCount < MaxSignals
    /\ sigCount' = sigCount + 1
    /\ Raise("sigint.write")
    /\ UNCHANGED <<envTERM, portOpen, ttyMode, sigHandler, atexit_fns,
                   hook_chain, called, opLog>>
    /\ UNCHANGED relayVars

\* the program from main() until the relay loop is left
RelayNext ==
    \/ Main
    \/ Construct
    \/ ConstructFail
    \/ ReopenStdin
    \/ ReopenStdinFail
    \/ Call
    \/ Select
    \/ PortService
    \/ StdinRead
    \/ Classify
    \/ EndBatch
    \/ Goodbye
    \/ IOError
    \/ SigInt
    \/ SigIntFail

\* the exit of the process
ExitNext ==
    \/ ExcepthookStep
    \/ AtexitStep

Next == RelayNext \/ ExitNext

\* the whole program
Spec == Init /\ [][Next]_vars

\* the program up to the end of the relay loop: the exit steps change none
\* of the relay's variables
SpecRelay == Init /\ [][RelayNext]_vars

\* the whole program, with the keyboard restricted to QuitKeyBytes
LifeNext ==
    \/ Main
    \/ Construct
    \/ ConstructFail
    \/ ReopenStdin
    \/ ReopenStdinFail
    \/ Call
    \/ Select
    \/ PortService
    \/ StdinReadQuitKeys
    \/ Classify
    \/ EndBatch
    \/ Goodbye
    \/ IOError
    \/ SigInt
    \/ SigIntFail
    \/ ExcepthookStep
    \/ AtexitStep

SpecLife == Init /\ [][LifeNext]_vars

(***************************************************************************)
(* Properties.                                                             *)
(***************************************************************************)
Byte == 0..255

CommandBytes == QuitSet \cup ResetSet \cup HelpSet

\* a step that is one turn of the for loop: the head of data is consumed
CharStep == pc = "chars" /\ data # <<>> /\ data' = Tail(data)

\* the keyboard bytes the for loop has consumed so far
Consumed == SubSeq(keyIn, 1, Len(keyIn) - Len(data))

NoPrefixIn(s) == \A i \in 1..Len(s) : s[i] # CTRL_A

Count(s, x) == Cardinality({i \in 1..Len(s) : s[i] = x})

RECURSIVE RelayFold(_, _, _, _)
\* The keyboard stream s relayed as one single batch, from escape state trap
\* and with `out` already sent: [out, trap] at the end of the stream.
RelayFold(s, trap, out, term) ==
    IF s = <<>> THEN [out |-> out, trap |-> trap]
    ELSE LET c == ClassifyChar(Head(s), trap, term) IN
         RelayFold(Tail(s), c.trap_next, out \o Join(c.append), term)

\* C1: once stop is set while a keyboard batch is processed, the loop leaves
\* through the break and issues no port write: the relay writes nothing in
\* any step taken while the batch still has chars to visit or stop is set,
\* wherever the quit command stands in the batch and however many literal
\* bytes are buffered; leaving the for loop with stop set ends the relay loop
\* with the port untouched.
C1_StopDropsBatch ==
    [][ /\ (stop \/ stop') => relayOut' = relayOut
        /\ (pc = "chars" /\ data # <<>>) => relayOut' = relayOut
        /\ (pc = "chars" /\ stop /\ pc' # "chars")
              => /\ pc' \in {"goodbye", "excepthook"}
                 /\ portOut' = portOut
                 /\ outbuf' = outbuf ]_vars

\* C1 witness: the loop was left by a quit command while literal bytes of
\* the same batch were buffered, and the port received nothing.
C1_Witness ==
    /\ pc = "goodbye"
    /\ stop
    /\ Join(outbuf) # <<>>
    /\ portOut = <<>>

\* C2: for a keyboard stream without the prefix byte, in whatever batches it
\* arrives, stop and trap_next stay false and the bytes are relayed unchanged
\* and in order: what the relay wrote, then what it has buffered, then what
\* it has yet to visit, is the stream; at every wait the relay has written
\* exactly the stream, and with no SIGINT that is all the port has received.
C2_LiteralStream ==
    NoPrefixIn(keyIn) =>
        /\ ~stop
        /\ ~trap_next
        /\ relayOut \o Join(outbuf) \o data = keyIn
        /\ pc = "select" => /\ relayOut = keyIn
                            /\ sigCount = 0 => portOut = keyIn

\* C2 witness: a prefix-free stream of MaxKeys bytes, among them bytes that
\* are commands after a prefix, has been relayed whole.
C2_Witness ==
    /\ pc = "select"
    /\ Len(keyIn) >= 3
    /\ NoPrefixIn(keyIn)
    /\ Lq \in {keyIn[i] : i \in 1..Len(keyIn)}
    /\ portOut = keyIn

\* C3: when the process has exited with both cleanups registered, the
\* terminal restoration and the port close have each been executed exactly
\* once.
C3_CleanupExactlyOnce ==
    (pc = "exited" /\ Len(atexit_fns) = 2)
        => \A id \in CleanupIds : Count(opLog, id) = 1

\* C4: with trap_next true, each byte of the quit set sets stop, clears
\* trap_next and adds no byte to the pending output, as a property of the
\* loop body for all five bytes and of every such step the relay takes; and
\* once the input 0x01 'q' is consumed (in one batch or two), stop is true,
\* the relay has written nothing, and without SIGINT the port has received
\* nothing.
C4_QuitCommand ==
    /\ (\A b \in QuitSet :
            LET c == ClassifyChar(b, TRUE, envTERM) IN
              c.stop /\ ~c.trap_next /\ Join(c.append) = <<>>)
    /\ [][ (CharStep /\ trap_next /\ Head(data) \in QuitSet)
              => /\ stop'
                 /\ ~trap_next'
                 /\ Join(outbuf') = Join(outbuf) ]_vars
    /\ []( (keyIn = <<CTRL_A, Lq>> /\ data = <<>>)
              => /\ stop
                 /\ relayOut = <<>>
                 /\ sigCount = 0 => portOut = <<>> )

\* C4 witness: the relay loop has ended on the input 0x01 'q'.
C4_Witness ==
    /\ keyIn = <<CTRL_A, Lq>>
    /\ pc = "goodbye"
    /\ stop
    /\ portOut = <<>>

\* C5: the step that consumes a byte with trap_next true always clears
\* trap_next; when that byte is the prefix itself the step buffers exactly
\* one literal 0x01 and leaves stop as it was; and a stream that begins
\* 0x01 0x01 and has no further prefix is relayed as one 0x01 followed by the
\* rest, untrapped (a 'q' after the pair is sent, not obeyed).
C5_LiteralPrefix ==
    /\ [][ (CharStep /\ trap_next) => ~trap_next' ]_vars
    /\ [][ (CharStep /\ trap_next /\ Head(data) = CTRL_A)
              => /\ outbuf' = Append(outbuf, <<CTRL_A>>)
                 /\ stop' = stop ]_vars
    /\ []( ( /\ pc = "select"
             /\ Len(keyIn) >= 2
             /\ keyIn[1] = CTRL_A
             /\ keyIn[2] = CTRL_A
             /\ NoPrefixIn(SubSeq(keyIn, 3, Len(keyIn))) )
              => /\ relayOut = <<CTRL_A>> \o SubSeq(keyIn, 3, Len(keyIn))
                 /\ ~stop
                 /\ ~trap_next )

\* C5 witness: 0x01 0x01 'q' was relayed as 0x01 'q'.
C5_Witness ==
    /\ pc = "select"
    /\ keyIn = <<CTRL_A, CTRL_A, Lq>>
    /\ relayOut = <<CTRL_A, Lq>>
    /\ ~stop

\* C6: with trap_next true, every byte that is no quit, reset or help
\* command is buffered as itself and leaves stop alone, as a property of the
\* loop body for all such bytes and of every such step; and a turn of the for
\* loop, in either escape state and for any byte, stays in the loop and
\* raises nothing.
C6_UnknownCommandPassesThrough ==
    /\ (\A b \in Byte \ CommandBytes :
            ClassifyChar(b, TRUE, envTERM)
              = [append |-> << <<b>> >>, trap_next |-> FALSE,
                 stop |-> FALSE, help |-> FALSE])
    /\ [][ (CharStep /\ trap_next /\ Head(data) \notin CommandBytes)
              => /\ outbuf' = Append(outbuf, <<Head(data)>>)
                 /\ stop' = stop ]_vars
    /\ [][ CharStep => (pc' = "chars" /\ raisedAt' = raisedAt) ]_vars

\* C6 witness: the unrecognised command 0x01 'a' was relayed as 'a'.
C6_Witness ==
    /\ pc = "select"
    /\ keyIn = <<CTRL_A, 97>>
    /\ relayOut = <<97>>

\* the terminal-type name the reset command carries
C7_TermName ==
    IF envTERM = NoTerm THEN <<118, 116, 49, 48, 48>> ELSE envTERM

\* 0x01 0x0B \n "true" \n "export TERM=<T> && resize && reset" \n
C7_Expected ==
    <<1, 11, 10, 116, 114, 117, 101, 10,
      101, 120, 112, 111, 114, 116, 32, 84, 69, 82, 77, 61>>
    \o C7_TermName
    \o <<32, 38, 38, 32, 114, 101, 115, 105, 122, 101,
         32, 38, 38, 32, 114, 101, 115, 101, 116, 10>>

\* C7: the prefix followed by 'r' or 'R' sends exactly C7_Expected, with
\* <T> the value of TERM or "vt100" when TERM is unset: interpret returns it
\* for both bytes, every such step buffers it whole, leaves stop alone and
\* clears trap_next, and the input 0x01 'r' puts exactly it on the port.
C7_ResetCommand ==
    /\ (\A b \in ResetSet :
            interpret(b, envTERM)
              = [result |-> C7_Expected, stop |-> FALSE, help |-> FALSE])
    /\ [][ (CharStep /\ trap_next /\ Head(data) \in ResetSet)
              => /\ outbuf' = Append(outbuf, C7_Expected)
                 /\ stop' = stop
                 /\ ~trap_next' ]_vars
    /\ []( (keyIn = <<CTRL_A, Lr>> /\ pc = "select")
              => /\ relayOut = C7_Expected
                 /\ ~stop
                 /\ ~trap_next
                 /\ sigCount = 0 => portOut = C7_Expected )

\* C7 witness: 0x01 'r' was relayed with TERM set, so that the sequence
\* carries the environment's name and not the default.
C7_Witness ==
    /\ pc = "select"
    /\ keyIn = <<CTRL_A, Lr>>
    /\ envTERM # NoTerm
    /\ portOut = C7_Expected

RECURSIVE RemoveHelpPairs(_)
\* the keyboard stream with every command pair 0x01 '?' taken out; the pairs
\* are read as the relay reads them, from the left
RemoveHelpPairs(s) ==
    IF s = <<>> THEN <<>>
    ELSE IF Head(s) # CTRL_A THEN <<Head(s)>> \o RemoveHelpPairs(Tail(s))
    ELSE IF Len(s) = 1 THEN s
    ELSE IF s[2] = QuestionMark THEN RemoveHelpPairs(Tail(Tail(s)))
    ELSE <<s[1], s[2]>> \o RemoveHelpPairs(Tail(Tail(s)))

\* C8: the step that consumes '?' with trap_next true prints the help text
\* and adds no byte to the pending output, writes nothing to the port and
\* leaves stop alone; nothing else prints the help text; and at every wait
\* the relay has written what it writes for the stream with the 0x01 '?'
\* pairs removed.
C8_HelpIsLocal ==
    /\ [][ (CharStep /\ trap_next /\ Head(data) = QuestionMark)
              => /\ printed' = Append(printed, "help")
                 /\ Join(outbuf') = Join(outbuf)
                 /\ portOut' = portOut
                 /\ stop' = stop ]_vars
    /\ [][ Count(printed', "help") # Count(printed, "help")
              => (CharStep /\ trap_next /\ Head(data) = QuestionMark) ]_vars
    /\ []( pc = "select"
              => relayOut
                   = RelayFold(RemoveHelpPairs(keyIn), FALSE, <<>>, envTERM).out )

\* C8 witness: a batch with a literal byte and a help command was relayed:
\* the help text was printed and only the literal byte was sent.
C8_Witness ==
    /\ pc = "select"
    /\ keyIn = <<97, CTRL_A, QuestionMark>>
    /\ printed = <<"banner", "help">>
    /\ portOut = <<97>>

C10_SplitIndependent ==
    (pc \in LoopPcs /\ ~stop) =>
        LET f == RelayFold(Consumed, FALSE, <<>>, envTERM) IN
          /\ relayOut \o Join(outbuf) = f.out
          /\ trap_next = f.trap
          /\ pc = "select" => relayOut = f.out

\* C10 witness: a keyboard batch is about to be read with the prefix of an
\* earlier batch pending, after a port-ready iteration and a SIGINT.
C10_Witness ==
    /\ pc = "stdin"
    /\ trap_next
    /\ keyIn[Len(keyIn)] = CTRL_A
    /\ portIn # <<>>
    /\ sigCount > 0

(***************************************************************************)
(* Signals, loop termination, start-up errors, cleanup order               *)
(***************************************************************************)
\* C11: a SIGINT delivered while the relay loop runs makes the handler write
\* the single byte 0x03 to the port. When the write returns, exactly that byte
\* is added to what the port received, stop, trap_next, outbuf and the rest
\* of the batch are as before and the loop is where it was; when the write
\* raises, nothing is written and the error leaves the loop. The port has
\* received the relay's bytes and one byte for each handler write that
\* returned.
C11_SigintForwardsETX ==
    /\ [][ sigCount' # sigCount
             => /\ sigCount' = sigCount + 1
                /\ pc \in LoopPcs
                /\ UNCHANGED <<stop, trap_next, outbuf, data, relayOut, keyIn,
                               display>>
                /\ \/ /\ portOut' = portOut \o <<ETX>>
                      /\ pc' = pc
                      /\ raisedAt' = raisedAt
                   \/ /\ portOut' = portOut
                      /\ raisedAt = "none"
                      /\ raisedAt' = "sigint.write"
                      /\ pc' \notin LoopPcs ]_vars
    /\ [](Len(portOut) = Len(relayOut) + sigCount
                           - (IF raisedAt = "sigint.write" THEN 1 ELSE 0))

\* C11 as stated: every SIGINT delivered while the loop runs adds exactly one
\* 0x03 to what the port received and leaves the loop running, with stop,
\* trap_next and outbuf unchanged.
C11_EverySigintWritesETX ==
    [][ sigCount' # sigCount
          => /\ portOut' = portOut \o <<ETX>>
             /\ pc' = pc
             /\ UNCHANGED <<stop, trap_next, outbuf>> ]_vars

\* C11 witness: a SIGINT was forwarded and the loop relayed a literal byte
\* afterwards.
C11_Witness ==
    /\ sigCount = 1
    /\ portOut = <<ETX, 97>>
    /\ pc = "select"
    /\ ~stop

\* C12: the relay loop is left only with stop set or by a call that raised;
\* once stop is set the loop is inside the for loop of that batch or past
\* it, never at the wait or at a read again; once a call has raised the
\* program is outside the loop and no step reads or writes the port, the
\* keyboard or the display.
C12_LoopExit ==
    /\ []( /\ pc = "goodbye" => stop
           /\ (printed # <<>> /\ pc \notin LoopPcs)
                 => \/ stop
                    \/ raisedAt \in {"select", "port.read", "stdin.read",
                                     "port.write", "sigint.write"}
           /\ (stop /\ pc \in LoopPcs) => (pc = "chars" /\ ready = {})
           /\ raisedAt # "none" => pc \notin LoopPcs )
    /\ [][ (stop /\ pc = "chars" /\ pc' # "chars")
              => pc' \in {"goodbye", "excepthook"} ]_vars
    /\ [][ raisedAt # "none"
              => UNCHANGED <<portOut, relayOut, portIn, keyIn, display,
                             raisedAt>> ]_vars

\* C12 witness: a port write raised after an earlier batch had been relayed,
\* with stop not set: the loop is left for the exception hook.
C12_Witness ==
    /\ pc = "excepthook"
    /\ raisedAt = "port.write"
    /\ ~stop
    /\ relayOut # <<>>
    /\ outbuf # <<>>

\* the first non-blank character of a parity argument is none of n, e, o
C13_ParityRejected(parity) ==
    LET i == CHOOSE k \in 1..Len(parity) :
                 /\ ~IsSpace(parity[k])
                 /\ \A j \in 1..(k - 1) : IsSpace(parity[j])
    IN  parity[i] \notin {78, 110, 69, 101, 79, 111}

\* a baud argument made of decimal digits
C13_IsInteger(baud) ==
    baud # <<>> /\ \A i \in 1..Len(baud) : baud[i] \in 48..57

\* C13: for arguments whose parity has a first letter, main goes on to open
\* the port exactly when the parity letter is one of N, E, O in either case,
\* the baud is an integer and the device exists, and names the first failed
\* test otherwise; whenever main has reported a configuration error the
\* process has exited with status 1, the port was never opened, the terminal
\* mode never changed, no cleanup and no signal handler was registered,
\* no cleanup ran and nothing was printed or written.
C13_ConfigErrors ==
    /\ pc = "main"
         => \A parity \in ParityArgs, baud \in BaudArgs, dev \in BOOLEAN :
              (\E k \in 1..Len(parity) : ~IsSpace(parity[k]))
                => MainOutcome(parity, baud, dev)
                     = IF C13_ParityRejected(parity) THEN "parity"
                       ELSE IF ~C13_IsInteger(baud) THEN "baud"
                       ELSE IF ~dev THEN "device"
                       ELSE "ok"
    /\ diag \in {"parity", "baud", "device"}
         => /\ pc = "exited"
            /\ exitStatus = 1
            /\ raisedAt = "none"
            /\ ~portOpen
            /\ ttyMode = "saved"
            /\ sigHandler = "default"
            /\ atexit_fns = <<>>
            /\ hook_chain = <<>>
            /\ opLog = <<>>
            /\ printed = <<>>
            /\ portOut = <<>>
    /\ (portOpen \/ atexit_fns # <<>> \/ sigHandler # "default"
          \/ ttyMode # "saved")
         => diag \notin {"parity", "baud", "device"}

\* C13 witness: main rejected the baud rate and the process has exited with
\* status 1.
C13_Witness ==
    /\ pc = "exited"
    /\ diag = "baud"
    /\ exitStatus = 1
    /\ ~portOpen

\* C14: however often and from wherever a cleanup is invoked, and whatever
\* its first call did, its underlying operation is performed at most once.
C14_CleanupIdempotent ==
    \A id \in CleanupIds : Count(opLog, id) <= 1

\* C15: outbuf is empty whenever the loop is at the wait or at a read; the
\* relay writes only at the end of a batch, writes exactly the content of
\* outbuf, and clears outbuf in the same step, before the next wait.
C15_OutbufPerBatch ==
    /\ []( pc \in {"select", "port", "stdin"} => outbuf = <<>> )
    /\ [][ relayOut' # relayOut
              => /\ pc = "chars"
                 /\ data = <<>>
                 /\ relayOut' = relayOut \o Join(outbuf)
                 /\ outbuf' = <<>>
                 /\ pc' = "select" ]_vars

\* C15 witness: bytes of a later batch are buffered after an earlier batch
\* was written.
C15_Witness ==
    /\ pc = "chars"
    /\ ~stop
    /\ relayOut # <<>>
    /\ outbuf # <<>>
    /\ data # <<>>

\* what one byte of a batch sends, given whether the prefix is pending
C16_Produces(b, trap) ==
    IF trap
    THEN IF b \in QuitSet \cup HelpSet THEN <<>>
         ELSE IF b \in ResetSet THEN C7_Expected
         ELSE <<b>>
    ELSE IF b = CTRL_A THEN <<>> ELSE <<b>>

\* C16: each byte of a batch adds what it produces at the end of outbuf; a
\* batch that ends with stop not set issues its port write in the step that
\* leaves the for loop, with the content of outbuf as payload, and the relay
\* writes in no other step.
C16_OneWritePerBatch ==
    [][ /\ CharStep
          => Join(outbuf') = Join(outbuf) \o C16_Produces(Head(data), trap_next)
        /\ (pc = "chars" /\ data = <<>> /\ ~stop /\ pc' # "chars")
              => \/ /\ pc' = "select"
                    /\ relayOut' = relayOut \o Join(outbuf)
                    /\ portOut' = portOut \o Join(outbuf)
                 \/ /\ raisedAt' \in {"port.write", "sigint.write"}
                    /\ relayOut' = relayOut
        /\ relayOut' # relayOut => (pc = "chars" /\ data = <<>> /\ ~stop) ]_vars

\* C16 witness: a literal byte and a reset command were relayed in input
\* order.
C16_Witness ==
    /\ pc = "select"
    /\ keyIn = <<97, CTRL_A, Lr>>
    /\ relayOut = <<97>> \o C7_Expected

\* C17: whenever the loop is at the wait, every source the previous wait
\* reported, as readable or as in an exceptional condition, has been acted
\* on.
C17_EveryReportServiced ==
    pc = "select" => (ready = {} /\ xready = {})

\* C18: once stop is set the relay loop writes nothing to the port; the
\* port receives something in such a step only from the SIGINT handler, and
\* then exactly the byte 0x03.
C18_NoRelayWriteAfterStop ==
    [][ stop => /\ relayOut' = relayOut
                /\ portOut' # portOut
                     => /\ sigCount' = sigCount + 1
                        /\ portOut' = portOut \o <<ETX>>
                        /\ pc = "chars"
                /\ sigCount' # sigCount /\ raisedAt' = raisedAt
                     => portOut' = portOut \o <<ETX>> ]_vars

\* C18 as stated: once stop is set, nothing is written to the port before
\* the loop is left, by the loop or by the SIGINT handler.
C18_NothingWrittenAfterStop ==
    [][ (stop /\ pc \in LoopPcs) => portOut' = portOut ]_vars

\* C18 witness: stop is set, the for loop still has bytes of the batch to
\* visit, the port has received the handler's byte and nothing of the batch.
C18_Witness ==
    /\ stop
    /\ pc = "chars"
    /\ data # <<>>
    /\ keyIn = <<CTRL_A, Lq, 97>>
    /\ portOut = <<ETX>>
    /\ relayOut = <<>>

\* C19: while a port report of the last wait has not been serviced the loop
\* is at the port read, and no keyboard byte of that iteration has been read;
\* whenever the loop is at the keyboard read, in the for loop or past the
\* break, every byte read from the port has been displayed.
C19_PortBeforeKeyboard ==
    /\ ("port" \in ready /\ raisedAt = "none") => pc = "port"
    /\ pc = "port" => data = <<>>
    /\ pc \in {"stdin", "chars", "goodbye"} => display = portIn

\* C19 witness: the wait reported both sources and the loop is at the port
\* read, the keyboard not yet read.
C19_Witness ==
    /\ pc = "port"
    /\ ready = {"stdin", "port"}
    /\ keyIn # <<>>

\* C20: the close is registered before the restore; every call of the port
\* close comes after a call of the terminal restore once both are
\* registered, and a process that has exited with both registered has called
\* both.
C20_RestoreBeforeClose ==
    /\ atexit_fns \in {<<>>, <<"close">>, <<"close", "restore">>}
    /\ hook_chain = Reverse(atexit_fns)
    /\ Len(atexit_fns) = 2
         => \A i \in 1..Len(opLog) :
              opLog[i] = "close" => \E j \in 1..(i - 1) : opLog[j] = "restore"
    /\ (pc = "exited" /\ Len(atexit_fns) = 2)
         => (Count(opLog, "restore") >= 1 /\ Count(opLog, "close") >= 1)

\* C20 witness: the session ended by a quit command and the exit handlers
\* restored the terminal, then closed the port.
C20_Witness ==
    /\ pc = "exited"
    /\ exitStatus = 0
    /\ opLog = <<"restore", "close">>
    /\ ~portOpen
    /\ ttyMode = "saved"

============================================================================
